---------------------------- MODULE Spec2Model ----------------------------
(***************************************************************************)
(* A model of the agent walkthrough scripts: the configuration factories   *)
(* (day-1/src/setup.py, day-2/src/setup.py, openai-agents-sdk/day-1/       *)
(* setup.py), the DynamicAgent wrapper (day-2/src/dynamic_instructions.py),*)
(* the asyncio batch of openai-agents-sdk/day-2/async_calculator.py and    *)
(* the concurrent agents of day-2/src/debug.py.                            *)
(*                                                                         *)
(* Conventions.                                                            *)
(*  - A Python string is the sequence of its pieces: a literal of the      *)
(*    source is written piece by piece (a line, a word or one character),  *)
(*    concatenation and f-string interpolation are \o.                     *)
(*  - None is the empty set and an object x that may be None is {x}.       *)
(*  - A float is the pair <<n, d>> of the fraction n/d it stands for.      *)
(*  - Each script is one run of the model: Init picks the script (prog)    *)
(*    and the variables of the other scripts keep their idle values.       *)
(***************************************************************************)
EXTENDS Integers, Sequences, FiniteSets, TLC

VARIABLES
    prog,       \* the script that runs: "config", "resolve", "dynamic",
                \* "calculator", "agents", "guess", "rps" or "race"
    environ,    \* os.environ after load_dotenv(): a function from names to strings
    console,    \* the lines printed so far
    uncaught,   \* the exception that left the script's top level, {} if none
    call,       \* config: the factory call made last, {} before the first
    outcome,    \* config: what that call did: raised / returned / objects built
    dyn,        \* dynamic: the DynamicAgent object, {} before its construction
    created,    \* dynamic: the last direct create_agent_for_task call and its result
    req,        \* dynamic: the handle_request call in progress or returned last
    handled,    \* dynamic: the number of handle_request calls made
    runCalls,   \* dynamic: the number of Runner.run calls issued
    now,        \* asyncio: the loop's clock at its last reading, in seconds
    late,       \* asyncio: how much later than needed the loop has read the clock
    ready,      \* asyncio: the queue of handles to run
    ntodo,      \* asyncio: the handles left to run in the current iteration
    timers,     \* asyncio: the scheduled timers
    phase,      \* asyncio: "running", "stopping", "shutdown" or "closed"
    tasks,      \* asyncio: each task's status, position, cancel mark and result
    futs,       \* asyncio: the future each task awaits (sleep or remote call)
    outer,      \* asyncio: gather's future
    waiter,     \* asyncio: the waiter of asyncio.wait
    snapshot,   \* calculator: the calls that had finished when the wait timed out
    raisedErrors, \* asyncio: the exceptions raised by coroutines so far
    pc,         \* games: where the game script is: "none", "start", ..., "end"
    low,        \* guess: the least number the computer still guesses
    high,       \* guess: the greatest number the computer still guesses
    attempts,   \* guess: the number of guesses made
    secret_number, \* guess: the number the user chose, {} before it is read
    guess,      \* guess: the last guess, {} before the first
    truthful,   \* guess: every answer of the user so far was truthful
    your_choice, \* rock_paper_scissor: the number the player typed, {} before
    ai,         \* rock_paper_scissor: the computer's choice, {} before
    user_bet,   \* turtle: the bet, {} (None) before the first answer
    xcor,       \* turtle: the x coordinate of each turtle, <<>> before they exist
    is_race_on, \* turtle: the flag of the race loop
    turtle      \* turtle: the position of the for loop in all_turtles

cfgVars == <<call, outcome>>
dynVars == <<dyn, created, req, handled, runCalls>>
loopVars == <<now, late, ready, ntodo, timers, phase, tasks, futs, outer, waiter,
              snapshot, raisedErrors>>
guessVars == <<low, high, attempts, secret_number, guess, truthful>>
rpsVars == <<your_choice, ai>>
raceVars == <<user_bet, xcor, is_race_on, turtle>>
gameVars == <<pc, guessVars, rpsVars, raceVars>>
vars == <<prog, environ, console, uncaught, cfgVars, dynVars, loopVars, gameVars>>

(***************************************************************************)
(* Bounds of the model.                                                    *)
(***************************************************************************)
\* temperatures tried are the fractions n/d with |n| <= MaxNum, 1 <= d <= MaxDen
MaxNum == 3
MaxDen == 2
\* max_tokens values tried are -MaxTok..MaxTok and the default
MaxTok == 2
\* contexts tried are the sequences of at most MaxContextLen pieces
MaxContextLen == 2
\* unrecognised task types tried include every string of at most MaxTaskLen
\* characters of TaskChars
MaxTaskLen == 2
\* handle_request is called at most MaxRequests times in a run
MaxRequests == 3
\* the event loop reads its clock at most MaxLate seconds late in all
MaxLate == 3
\* the secret numbers tried are those less than MaxEdge away from an end of
\* the range 1..100, and the two numbers just outside it
MaxEdge == 1
\* a run in which the user has answered untruthfully is followed for
\* MaxUntruthful guesses
MaxUntruthful == 1
\* the numbers typed in rock-paper-scissors are -MaxChoice..(2 + MaxChoice)
MaxChoice == 2
\* when the race is taken up each turtle is at most MaxBehind full steps short
\* of the last position from which it is not yet a winner
MaxBehind == 1

(***************************************************************************)
(* Python values.                                                          *)
(***************************************************************************)
None == {}
Some(x) == {x}
TheValue(opt) == CHOOSE x \in opt : TRUE

\* `not s` for s a string or None
Falsy(opt) == opt = None \/ opt = Some(<<>>)

ValueError(msg) == [type |-> "ValueError", msg |-> msg]

\* os.getenv(name)
Getenv(env, name) == IF name \in DOMAIN env THEN Some(env[name]) ELSE None

\* a keyword parameter with a default: arg is <<>> when the caller omits it
Param(arg, default) == IF arg = <<>> THEN default ELSE arg[1]

(***************************************************************************)
(* The configuration factories.                                            *)
(***************************************************************************)
GEMINI_API_KEY == "GEMINI_API_KEY"
BaseUrl == <<"https://generativelanguage.googleapis.com/v1beta/openai/">>
ModelName == <<"gemini-2.0-flash">>
MissingKeyMessage == <<"GEMINI_API_KEY not found in environment variables">>

DefaultTemperature == <<7, 10>>
DefaultMaxTokens == 1000

AsyncOpenAI(api_key, base_url) == [api_key |-> api_key, base_url |-> base_url]

OpenAIChatCompletionsModel(model, openai_client) ==
    [model |-> model, openai_client |-> openai_client]

ModelSettings(temperature, max_tokens) ==
    [temperature |-> temperature, max_tokens |-> max_tokens]

\* RunConfig(...); model_settings is None when the caller gives none
RunConfig(model, model_provider, tracing_disabled, model_settings) ==
    [model |-> model, model_provider |-> model_provider,
     tracing_disabled |-> tracing_disabled, model_settings |-> model_settings]

\* what a factory call did: the exception it raised or the tuple it returned,
\* and every object it constructed on the way
Raised(e) ==
    [raised |-> Some(e), returned |-> None,
     client |-> None, model |-> None, settings |-> None, config |-> None]

Returned(result, client, model, settings, config) ==
    [raised |-> None, returned |-> Some(result),
     client |-> Some(client), model |-> Some(model),
     settings |-> settings, config |-> Some(config)]

\* the guard every factory starts with
KeyMissingNoneOnly(key) == key = None
KeyMissing(key) == Falsy(key)

\* day-1/src/setup.py
create_gemini_config_day1(env) ==
    LET gemini_api_key == Getenv(env, GEMINI_API_KEY) IN
    IF KeyMissing(gemini_api_key)
    THEN Raised(ValueError(MissingKeyMessage))
    ELSE LET external_client == AsyncOpenAI(TheValue(gemini_api_key), BaseUrl)
             model == OpenAIChatCompletionsModel(ModelName, external_client)
             config == RunConfig(model, external_client, TRUE, None)
         IN  Returned(<<config, external_client, model>>,
                      external_client, model, None, config)

\* the values create_gemini_config hands to ModelSettings
SettingsIgnoringArguments(temperature, max_tokens) ==
    ModelSettings(DefaultTemperature, DefaultMaxTokens)
SettingsOf(temperature, max_tokens) == ModelSettings(temperature, max_tokens)

\* day-2/src/setup.py; temperature and max_tokens are <<>> when omitted
create_gemini_config(env, temperatureArg, max_tokensArg) ==
    LET temperature == Param(temperatureArg, DefaultTemperature)
        max_tokens == Param(max_tokensArg, DefaultMaxTokens)
        gemini_api_key == Getenv(env, GEMINI_API_KEY)
    IN
    IF KeyMissing(gemini_api_key)
    THEN Raised(ValueError(MissingKeyMessage))
    ELSE LET external_client == AsyncOpenAI(TheValue(gemini_api_key), BaseUrl)
             model == OpenAIChatCompletionsModel(ModelName, external_client)
             model_settings == SettingsOf(temperature, max_tokens)
             config == RunConfig(model, external_client, TRUE, Some(model_settings))
         IN  Returned(<<config, external_client, model>>,
                      external_client, model, Some(model_settings), config)

\* openai-agents-sdk/day-1/setup.py
create_gemini_setup(env) ==
    LET gemini_api == Getenv(env, GEMINI_API_KEY) IN
    IF KeyMissing(gemini_api)
    THEN Raised(ValueError(MissingKeyMessage))
    ELSE LET external_client == AsyncOpenAI(TheValue(gemini_api), BaseUrl)
             model == OpenAIChatCompletionsModel(ModelName, external_client)
             config == RunConfig(model, external_client, TRUE, None)
         IN  Returned(<<config, model, external_client>>,
                      external_client, model, None, config)

(***************************************************************************)
(* Inputs.                                                                 *)
(***************************************************************************)
\* the credential is unset, set to the empty string, or set
Environments ==
    { <<>> } \cup { [n \in {GEMINI_API_KEY} |-> v] : v \in { <<>>, <<"AIza-key">> } }

Temperatures ==
    { <<n, d>> : n \in (0 - MaxNum)..MaxNum, d \in 1..MaxDen } \cup {DefaultTemperature}

TokenCounts == (0 - MaxTok)..MaxTok \cup {DefaultMaxTokens}

\* an argument given, or omitted
Optional(S) == { <<>> } \cup { <<x>> : x \in S }

\* n/d lies in the closed interval [0, 1]
InUnitInterval(t) == 0 <= t[1] /\ t[1] <= t[2]

(***************************************************************************)
(* Strings: str.title().                                                   *)
(***************************************************************************)
LowerCase == <<"a", "b", "c", "d", "e", "f", "g", "h", "i", "j", "k", "l", "m",
               "n", "o", "p", "q", "r", "s", "t", "u", "v", "w", "x", "y", "z">>
UpperCase == <<"A", "B", "C", "D", "E", "F", "G", "H", "I", "J", "K", "L", "M",
               "N", "O", "P", "Q", "R", "S", "T", "U", "V", "W", "X", "Y", "Z">>

IndexIn(letters, c) ==
    IF \E i \in DOMAIN letters : letters[i] = c
    THEN CHOOSE i \in DOMAIN letters : letters[i] = c
    ELSE 0

IsCased(c) == IndexIn(LowerCase, c) > 0 \/ IndexIn(UpperCase, c) > 0
ToUpper(c) == IF IndexIn(LowerCase, c) > 0 THEN UpperCase[IndexIn(LowerCase, c)] ELSE c
ToLower(c) == IF IndexIn(UpperCase, c) > 0 THEN LowerCase[IndexIn(UpperCase, c)] ELSE c

\* s.title() for s a string written character by character: a letter that
\* follows a letter is lowercased, any other letter is uppercased
Title(s) ==
    [i \in 1..Len(s) |->
        IF ~IsCased(s[i]) THEN s[i]
        ELSE IF i > 1 /\ IsCased(s[i - 1]) THEN ToLower(s[i])
        ELSE ToUpper(s[i])]

(***************************************************************************)
(* DynamicAgent (day-2/src/dynamic_instructions.py).                       *)
(***************************************************************************)
Email == <<"e", "m", "a", "i", "l">>
Code == <<"c", "o", "d", "e">>
Creative == <<"c", "r", "e", "a", "t", "i", "v", "e">>
Tutor == <<"t", "u", "t", "o", "r">>
Analyst == <<"a", "n", "a", "l", "y", "s", "t">>

\* the keys of instruction_templates
TemplateKeys == {Email, Code, Creative, Tutor, Analyst}

\* the line break and indentation between two lines of a template literal
Indent == "\n            "

\* the literal text of each template, up to its {additional_context}
Preamble(key) ==
    CASE key = Email ->
            <<"You are a professional email assistant.", Indent,
              "Write clear, polite, and business-appropriate emails.", Indent,
              "Keep responses concise and actionable.", Indent>>
      [] key = Code ->
            <<"You are a senior software engineer.", Indent,
              "Provide clean, well-commented code with explanations.", Indent,
              "Focus on best practices and readability.", Indent>>
      [] key = Creative ->
            <<"You are a creative writing assistant.", Indent,
              "Be imaginative, engaging, and descriptive.", Indent,
              "Use vivid language and compelling narratives.", Indent>>
      [] key = Tutor ->
            <<"You are a patient and encouraging tutor.", Indent,
              "Explain concepts step-by-step with examples.", Indent,
              "Ask clarifying questions to ensure understanding.", Indent>>
      [] key = Analyst ->
            <<"You are a data analyst.", Indent,
              "Provide structured, logical analysis.", Indent,
              "Use facts and evidence to support conclusions.", Indent>>

\* the dict built at each call: every f-string with additional_context put in
instruction_templates(additional_context) ==
    [key \in TemplateKeys |-> Preamble(key) \o additional_context]

\* instruction_templates[task_type]
LookupFirstTemplate(templates, task_type) == templates[Email]
LookupTemplate(templates, task_type) == templates[task_type]

\* task_type not in instruction_templates
NotIn(templates, task_type) == task_type \notin DOMAIN templates

Agent(name, instructions, model) ==
    [name |-> name, instructions |-> instructions, model |-> model]

DynamicAgentObject(base_name, config) == [base_name |-> base_name, config |-> config]

DefaultBaseName == <<"Dynamic Agent">>

\* DynamicAgent.create_agent_for_task: the exception raised or the Agent returned
create_agent_for_task_accumulating(self, task_type, additional_context) ==
    LET earlier == IF created = None THEN <<>> ELSE TheValue(created).context
        templates == instruction_templates(earlier \o additional_context)
    IN
    IF NotIn(templates, task_type)
    THEN [raised |-> Some(ValueError(<<"Unknown task type: ">> \o task_type)),
          returned |-> None]
    ELSE [raised |-> None,
          returned |-> Some(Agent(self.base_name \o <<" - ">> \o Title(task_type),
                                  templates[task_type], ModelName))]
create_agent_for_task_with_fallback(self, task_type, additional_context) ==
    LET templates == instruction_templates(additional_context)
        key == IF task_type \in DOMAIN templates THEN task_type ELSE Email
    IN  [raised |-> None,
         returned |-> Some(Agent(self.base_name \o <<" - ">> \o Title(task_type),
                                 templates[key], ModelName))]
create_agent_for_task(self, task_type, additional_context) ==
    LET templates == instruction_templates(additional_context) IN
    IF NotIn(templates, task_type)
    THEN [raised |-> Some(ValueError(<<"Unknown task type: ">> \o task_type)),
          returned |-> None]
    ELSE [raised |-> None,
          returned |-> Some(Agent(self.base_name \o <<" - ">> \o Title(task_type),
                                  LookupTemplate(templates, task_type),
                                  ModelName))]

\* str(e)
Str(e) == e.msg

\* the line handle_request prints for an exception it catches
CaughtLine(e) == <<"you type wrong task_type ">> \o Str(e)

(***************************************************************************)
(* Inputs of the DynamicAgent script.                                      *)
(***************************************************************************)
\* all sequences over S of length at most n
SeqsUpTo(S, n) == UNION { [1..k -> S] : k \in 0..n }

ContextPieces == {"focus on sustainability", "{additional_context}",
                  "You are a data analyst."}
Contexts == SeqsUpTo(ContextPieces, MaxContextLen)

TaskChars == {"e", "E", "_"}
UnknownType == <<"u", "n", "k", "n", "o", "w", "n", "_", "t", "y", "p", "e">>
TaskTypes ==
    TemplateKeys
        \cup {UnknownType, <<"E", "m", "a", "i", "l">>, <<"e", "m", "a", "i", "l", " ">>}
        \cup SeqsUpTo(TaskChars, MaxTaskLen)

BaseNames == {DefaultBaseName, <<"Versatile Assistant">>}

\* what handle_request is called with in the demonstrations, and one
\* unrecognised task type
RequestTaskTypes == TemplateKeys \cup {UnknownType}
RequestContexts == { <<>>, <<"focus on sustainability">> }
UserInputs == { <<"What is machine learning?">> }

\* what the remote run can answer, and how it can fail
FinalOutputs == { <<"final output">> }
RemoteErrors == { [type |-> "APIConnectionError", msg |-> <<"Connection error.">>] }

NoRequest == None
IdleDynamic ==
    /\ dyn = None
    /\ created = None
    /\ req = NoRequest
    /\ handled = 0
    /\ runCalls = 0

(***************************************************************************)
(* The asyncio event loop, as far as the two asyncio scripts use it.       *)
(*                                                                         *)
(* A task is named <<kind, index>>; a handle is a callback the loop is to  *)
(* run.  One iteration of the loop reads the clock, moves the timers that  *)
(* are due to the ready queue, and runs the handles that are in the queue  *)
(* at that point (ntodo of them); what they schedule runs in the next      *)
(* iteration.  A timer never fires early; how late the loop gets to it is  *)
(* not the program's choice (late counts the delay suffered so far).       *)
(*                                                                         *)
(* The operators below take and return the world w: a record of the        *)
(* variables a handle can change.                                          *)
(***************************************************************************)
Waiting == <<"waiting", 0>>
Main == <<"main", 0>>
Divide == <<"call", 1>>
ReverseString == <<"call", 2>>
Debug == <<"debug", 0>>

WaitTimeout == 10
DivideSleep == 6
ReverseSleep == 8
NumAgents == 3

\* the task asyncio.run starts, the task that awaits gather, gather's children
Root == IF prog = "calculator" THEN Waiting ELSE Debug
Gatherer == IF prog = "calculator" THEN Main ELSE Debug
Children ==
    IF prog = "calculator" THEN <<Divide, ReverseString>>
    ELSE [i \in 1..NumAgents |-> <<"call", i>>]
IsChild(t) == t[1] = "call"

Handle(h, t) == [h |-> h, task |-> t]
NewTask == [status |-> "pending", pc |-> "start", must_cancel |-> FALSE, result |-> None]
NoTask == [status |-> "absent", pc |-> "start", must_cancel |-> FALSE, result |-> None]
NoFuture == [state |-> "none", value |-> None]
PendingFuture == [state |-> "pending", value |-> None]
NoGather ==
    [state |-> "none", value |-> None, finished |-> <<>>, cancel_requested |-> FALSE]

World ==
    [tasks |-> tasks, futs |-> futs, outer |-> outer, waiter |-> waiter,
     ready |-> ready, timers |-> timers, console |-> console,
     raisedErrors |-> raisedErrors, snapshot |-> snapshot]

Commit(w) ==
    /\ tasks' = w.tasks /\ futs' = w.futs /\ outer' = w.outer /\ waiter' = w.waiter
    /\ ready' = w.ready /\ timers' = w.timers /\ console' = w.console
    /\ raisedErrors' = w.raisedErrors /\ snapshot' = w.snapshot

\* loop.call_soon, loop.call_later, print
Schedule(w, handle) == [w EXCEPT !.ready = Append(@, handle)]
CallLater(w, delay, handle) ==
    [w EXCEPT !.timers = @ \cup {[when |-> now + delay, h |-> handle.h, task |-> handle.task]}]
CancelTimer(w, handle) ==
    [w EXCEPT !.timers = {tm \in @ : ~(tm.h = handle.h /\ tm.task = handle.task)}]
PrintLine(w, line) == [w EXCEPT !.console = Append(@, line)]

\* the done callbacks of task t, in the order they were added
Callbacks(w, t) ==
    IF IsChild(t) THEN <<Handle("done_callback", t)>>
    ELSE IF t = Root THEN <<Handle("stop", t)>>
    ELSE IF w.waiter.registered THEN <<Handle("on_completion", t)>>
    ELSE <<>>

\* a task ends (returned, raised or cancelled): its done callbacks are scheduled
Finish(w, t, status, result) ==
    [w EXCEPT !.tasks[t] = [status |-> status, pc |-> "end",
                            must_cancel |-> FALSE, result |-> result],
              !.ready = @ \o Callbacks(w, t)]

\* Task.cancel() of a child of gather: the future it awaits is cancelled, which
\* wakes it; a task that awaits nothing cancellable is marked instead
CancelChild(w, t) ==
    IF w.tasks[t].status # "pending" THEN w
    ELSE IF w.tasks[t].pc = "await" /\ w.futs[t].state = "pending"
    THEN Schedule([w EXCEPT !.futs[t].state = "cancelled"], Handle("step", t))
    ELSE [w EXCEPT !.tasks[t].must_cancel = TRUE]

RECURSIVE CancelChildren(_, _)
CancelChildren(w, children) ==
    IF children = <<>> THEN w
    ELSE CancelChildren(CancelChild(w, Head(children)), Tail(children))

\* Task.cancel(); for the task that awaits gather's future this is
\* _GatheringFuture.cancel(): the children are cancelled, and the future only
\* notes the request
CancelTask(w, t) ==
    IF IsChild(t) THEN CancelChild(w, t)
    ELSE IF w.tasks[t].status # "pending" THEN w
    ELSE IF /\ t = Gatherer /\ w.tasks[t].pc = "gather" /\ w.outer.state = "pending"
            /\ \E i \in DOMAIN Children : w.tasks[Children[i]].status = "pending"
    THEN [CancelChildren(w, Children) EXCEPT !.outer.cancel_requested = TRUE]
    ELSE [w EXCEPT !.tasks[t].must_cancel = TRUE]

RECURSIVE CancelAll(_, _)
CancelAll(w, ts) ==
    IF ts = <<>> THEN w ELSE CancelAll(CancelTask(w, Head(ts)), Tail(ts))

\* a woken task finds CancelledError thrown into it
Cancelled(w, t) ==
    w.tasks[t].must_cancel \/ (w.tasks[t].pc = "await" /\ w.futs[t].state = "cancelled")

\* gather's list of results: one per child, in the order of the arguments
ResultsInCompletionOrder(w, finished) ==
    [i \in DOMAIN finished |-> TheValue(w.tasks[finished[i]].result)]
GatherResults(w, finished) ==
    [i \in DOMAIN Children |-> TheValue(w.tasks[Children[i]].result)]

\* gather's _done_callback(fut) for child t
DoneCallback(w, t) ==
    LET finished == Append(w.outer.finished, t)
        counted == [w EXCEPT !.outer.finished = finished]
        wake(v) == Schedule(v, Handle("step", Gatherer))
    IN
    IF w.outer.state # "pending" THEN counted
    ELSE IF w.tasks[t].status = "cancelled"
    THEN wake([counted EXCEPT !.outer.state = "cancelled"])
    ELSE IF w.tasks[t].status = "failed"
    THEN wake([counted EXCEPT !.outer.state = "failed",
                              !.outer.value = w.tasks[t].result])
    ELSE IF Len(finished) = Len(Children)
    THEN IF w.outer.cancel_requested
         THEN wake([counted EXCEPT !.outer.state = "cancelled"])
         ELSE wake([counted EXCEPT !.outer.state = "done",
                                   !.outer.value = Some(GatherResults(w, finished))])
    ELSE counted

(***************************************************************************)
(* openai-agents-sdk/day-2/async_calculator.py                             *)
(***************************************************************************)
\* a / b
divide(a, b) == <<a, b>>

\* text[::-1]
reverse_string(text) == [i \in 1..Len(text) |-> text[Len(text) + 1 - i]]

Hello == <<"h", "e", "l", "l", "o">>
TimeoutLine == <<"some task not complete in time">>

SleepOf(t) == IF t = Divide THEN DivideSleep ELSE ReverseSleep
ReturnOf(t) == IF t = Divide THEN divide(25, 6) ELSE reverse_string(Hello)

\* a step of divide / reverse_string: to the await of asyncio.sleep, and from
\* it to the return
StepCalculatorCall(w, t) ==
    IF w.tasks[t].pc = "start"
    THEN IF Cancelled(w, t) THEN Finish(w, t, "cancelled", None)
         ELSE CallLater([w EXCEPT !.tasks[t].pc = "await", !.futs[t] = PendingFuture],
                        SleepOf(t), Handle("sleep_fired", t))
    ELSE IF Cancelled(w, t)
         THEN Finish(CancelTimer(w, Handle("sleep_fired", t)), t, "cancelled", None)
         ELSE Finish(w, t, "done", Some(ReturnOf(t)))

\* what main() does with the results of gather
MainPrintsDespiteCancel(w) ==
    IF w.outer.state # "done"
    THEN Finish(w, Main, "cancelled", None)
    ELSE Finish(PrintLine(w, <<TheValue(w.outer.value)[1], TheValue(w.outer.value)[2]>>),
                Main, "done", Some(None))
MainAfterGather(w) ==
    IF Cancelled(w, Main) \/ w.outer.state = "cancelled"
    THEN Finish(w, Main, "cancelled", None)
    ELSE Finish(PrintLine(w, <<TheValue(w.outer.value)[1], TheValue(w.outer.value)[2]>>),
                Main, "done", Some(None))

\* a step of main(): to the await of gather, and from it to the return
StepMain(w) ==
    IF w.tasks[Main].pc = "start"
    THEN IF Cancelled(w, Main) THEN Finish(w, Main, "cancelled", None)
         ELSE [w EXCEPT !.tasks[Main].pc = "gather",
                        !.tasks[Divide] = NewTask,
                        !.tasks[ReverseString] = NewTask,
                        !.outer = [NoGather EXCEPT !.state = "pending"],
                        !.ready = @ \o <<Handle("step", Divide),
                                         Handle("step", ReverseString)>>]
    ELSE MainAfterGather(w)

\* the loop of waiting() over pending
ReportOnly(w, pending) ==
    IF pending THEN PrintLine(w, TimeoutLine) ELSE w
ReportAndCancel(w, pending) ==
    IF pending THEN CancelTask(PrintLine(w, TimeoutLine), Main) ELSE w

\* a step of waiting(): to the await inside asyncio.wait, and from it to the
\* return
StepWaiting(w) ==
    IF w.tasks[Waiting].pc = "start"
    THEN CallLater([w EXCEPT !.tasks[Waiting].pc = "wait",
                             !.tasks[Main] = NewTask,
                             !.ready = Append(@, Handle("step", Main)),
                             !.waiter = [state |-> "pending", registered |-> TRUE]],
                   WaitTimeout, Handle("release_waiter", Waiting))
    ELSE LET pending == w.tasks[Main].status = "pending"
             woken == [CancelTimer(w, Handle("release_waiter", Waiting))
                          EXCEPT !.waiter.registered = FALSE,
                                 !.snapshot =
                                    IF pending
                                    THEN Some({c \in {Divide, ReverseString} :
                                                  w.tasks[c].status = "done"})
                                    ELSE None]
         IN  Finish(ReportAndCancel(woken, pending), Waiting, "done", Some(None))

IdleLoop ==
    /\ now = 0 /\ late = 0 /\ ready = <<>> /\ ntodo = 0 /\ timers = {}
    /\ phase = "none" /\ tasks = <<>> /\ futs = <<>> /\ outer = NoGather
    /\ waiter = [state |-> "none", registered |-> FALSE]
    /\ snapshot = None /\ raisedErrors = {}

IdleGuess ==
    /\ low = 0 /\ high = 0 /\ attempts = 0
    /\ secret_number = None /\ guess = None /\ truthful = TRUE
IdleRps == your_choice = None /\ ai = None
IdleRace == user_bet = None /\ xcor = <<>> /\ is_race_on = FALSE /\ turtle = 0
IdleGames == pc = "none" /\ IdleGuess /\ IdleRps /\ IdleRace

(***************************************************************************)
(* Script "config": the factories are called, any number of times.         *)
(***************************************************************************)
IdleConfig == call = None /\ outcome = None

InitConfig ==
    /\ prog = "config"
    /\ environ \in Environments
    /\ console = <<>>
    /\ uncaught = None
    /\ IdleConfig
    /\ IdleDynamic
    /\ IdleLoop
    /\ IdleGames

CallCreateGeminiConfigDay1 ==
    /\ prog = "config"
    /\ call' = Some([factory |-> "day-1/create_gemini_config",
                     temperature |-> <<>>, max_tokens |-> <<>>])
    /\ outcome' = Some(create_gemini_config_day1(environ))
    /\ UNCHANGED <<gameVars, prog, environ, console, uncaught, dynVars, loopVars>>

CallCreateGeminiConfig ==
    /\ prog = "config"
    /\ \E t \in Optional(Temperatures), m \in Optional(TokenCounts) :
        /\ call' = Some([factory |-> "day-2/create_gemini_config",
                         temperature |-> t, max_tokens |-> m])
        /\ outcome' = Some(create_gemini_config(environ, t, m))
    /\ UNCHANGED <<gameVars, prog, environ, console, uncaught, dynVars, loopVars>>

CallCreateGeminiSetup ==
    /\ prog = "config"
    /\ call' = Some([factory |-> "create_gemini_setup",
                     temperature |-> <<>>, max_tokens |-> <<>>])
    /\ outcome' = Some(create_gemini_setup(environ))
    /\ UNCHANGED <<gameVars, prog, environ, console, uncaught, dynVars, loopVars>>

NextConfig ==
    \/ CallCreateGeminiConfigDay1
    \/ CallCreateGeminiConfig
    \/ CallCreateGeminiSetup

(***************************************************************************)
(* Script "resolve": a DynamicAgent is constructed and                     *)
(* create_agent_for_task is called on it, any number of times.             *)
(* Script "dynamic": a DynamicAgent is constructed and handle_request is   *)
(* called and awaited, one call after the other, as the demonstrations do. *)
(***************************************************************************)
InitDynamic ==
    /\ prog \in {"resolve", "dynamic"}
    /\ environ \in Environments
    /\ console = <<>>
    /\ uncaught = None
    /\ IdleConfig
    /\ IdleDynamic
    /\ IdleLoop
    /\ IdleGames

\* DynamicAgent(base_name): __init__ keeps the name and the default configuration;
\* the factory's exception is not caught
NewDynamicAgent ==
    /\ prog \in {"resolve", "dynamic"}
    /\ dyn = None /\ uncaught = None
    /\ \E base_name \in BaseNames :
        LET made == create_gemini_config(environ, <<>>, <<>>) IN
        IF made.raised # None
        THEN /\ uncaught' = made.raised
             /\ UNCHANGED dyn
        ELSE /\ dyn' = Some(DynamicAgentObject(base_name, TheValue(made.returned)[1]))
             /\ UNCHANGED uncaught
    /\ UNCHANGED <<gameVars, prog, environ, console, cfgVars, created, req, handled, runCalls, loopVars>>

\* a direct call of create_agent_for_task
CallCreateAgentForTask ==
    /\ prog = "resolve"
    /\ \E self \in dyn, task_type \in TaskTypes, additional_context \in Contexts :
        created' = Some([task_type |-> task_type, context |-> additional_context,
                         result |-> create_agent_for_task(self, task_type,
                                                          additional_context)])
    /\ UNCHANGED <<gameVars, prog, environ, console, uncaught, cfgVars, dyn, req, handled, runCalls, loopVars>>

\* handle_request up to its await: the agent is created and Runner.run is
\* called, or the exception of create_agent_for_task is caught and printed and
\* the call returns None
Awaiting == \E r \in req : r.pc = "awaiting Runner.run"

HandleRequest ==
    /\ prog = "dynamic"
    /\ ~Awaiting
    /\ handled < MaxRequests
    /\ handled' = handled + 1
    /\ \E self \in dyn, task_type \in RequestTaskTypes,
          user_input \in UserInputs, context \in RequestContexts :
        LET made == create_agent_for_task(self, task_type, context)
            this == [task_type |-> task_type, user_input |-> user_input,
                     context |-> context, agent |-> made.returned,
                     runs |-> 0, errors |-> <<>>, printed |-> <<>>,
                     pc |-> "returned", result |-> None]
        IN
        IF made.raised # None
        THEN /\ console' = Append(console, CaughtLine(TheValue(made.raised)))
             /\ req' = Some([this EXCEPT !.errors = <<TheValue(made.raised)>>,
                                         !.printed = <<CaughtLine(TheValue(made.raised))>>])
             /\ UNCHANGED runCalls
        ELSE /\ req' = Some([this EXCEPT !.runs = 1, !.pc = "awaiting Runner.run"])
             /\ runCalls' = runCalls + 1
             /\ UNCHANGED console
    /\ UNCHANGED <<gameVars, prog, environ, uncaught, cfgVars, dyn, created, loopVars>>

\* what handle_request does when the awaited Runner.run raises e
AfterRunFailureSilent(r, e) ==
    [r EXCEPT !.errors = Append(@, e), !.pc = "returned", !.result = None]
AfterRunFailureRetry(r, e) ==
    [r EXCEPT !.errors = Append(@, e), !.runs = @ + 1]
AfterRunFailure(r, e) ==
    [r EXCEPT !.errors = Append(@, e), !.printed = Append(@, CaughtLine(e)),
              !.pc = "returned", !.result = None]

\* Runner.run returns: handle_request returns result.final_output
RunnerRunReturns ==
    /\ prog = "dynamic"
    /\ \E r \in req, final_output \in FinalOutputs :
        /\ r.pc = "awaiting Runner.run"
        /\ req' = Some([r EXCEPT !.pc = "returned", !.result = Some(final_output)])
    /\ UNCHANGED <<gameVars, prog, environ, console, uncaught, cfgVars, dyn, created, handled, runCalls, loopVars>>

\* Runner.run raises: handle_request catches, prints and returns None
RunnerRunRaises ==
    /\ prog = "dynamic"
    /\ \E r \in req, e \in RemoteErrors :
        /\ r.pc = "awaiting Runner.run"
        /\ LET after == AfterRunFailure(r, e) IN
            /\ req' = Some(after)
            /\ console' = console \o SubSeq(after.printed, Len(r.printed) + 1,
                                            Len(after.printed))
            /\ runCalls' = runCalls + (after.runs - r.runs)
    /\ UNCHANGED <<gameVars, prog, environ, uncaught, cfgVars, dyn, created, handled, loopVars>>

NextDynamic ==
    \/ NewDynamicAgent
    \/ CallCreateAgentForTask
    \/ HandleRequest
    \/ RunnerRunReturns
    \/ RunnerRunRaises

(***************************************************************************)
(* day-2/src/debug.py: debug_async_patterns                                *)
(***************************************************************************)
\* what a remote run can answer, and the exception it can raise; exceptions
\* are distinct objects, told apart here by the task that raised them
AgentOutputs == { <<"1">>, <<"2">> }
RemoteError(t) ==
    [type |-> "APIConnectionError", msg |-> <<"Connection error.">>, origin |-> t]

\* a coroutine raises e
Raise(w, t, e) ==
    Finish([w EXCEPT !.raisedErrors = @ \cup e], t, "failed", e)

\* a step of Runner.run(agent, ...) as a child of gather: to the await of the
\* remote call, and from it to the return or the raise
StepAgentCall(w, t) ==
    IF w.tasks[t].pc = "start"
    THEN IF Cancelled(w, t) THEN Finish(w, t, "cancelled", None)
         ELSE [w EXCEPT !.tasks[t].pc = "await", !.futs[t] = PendingFuture]
    ELSE IF Cancelled(w, t) THEN Finish(w, t, "cancelled", None)
    ELSE IF w.futs[t].state = "failed" THEN Raise(w, t, w.futs[t].value)
    ELSE Finish(w, t, "done", w.futs[t].value)

RECURSIVE PrintResults(_, _, _)
PrintResults(w, results, i) ==
    IF i > Len(results) THEN w
    ELSE PrintResults(PrintLine(w, <<"Agent ", ToString(i - 1), " result: ", results[i]>>),
                      results, i + 1)

\* a step of debug_async_patterns: to the await of the first Runner.run, from
\* it to the await of gather, and from it to the return; no exception is caught
StepDebug(w) ==
    CASE w.tasks[Debug].pc = "start" ->
            LET made == create_gemini_config(environ, <<>>, <<>>) IN
            IF made.raised # None THEN Raise(w, Debug, made.raised)
            ELSE [w EXCEPT !.tasks[Debug].pc = "await", !.futs[Debug] = PendingFuture]
      [] w.tasks[Debug].pc = "await" ->
            IF w.futs[Debug].state = "failed" THEN Raise(w, Debug, w.futs[Debug].value)
            ELSE [PrintLine(w, <<"Correct result: ", TheValue(w.futs[Debug].value)>>)
                    EXCEPT !.tasks = [t \in DOMAIN @ |->
                                        IF IsChild(t) THEN NewTask
                                        ELSE [@[t] EXCEPT !.pc = "gather"]],
                           !.outer = [NoGather EXCEPT !.state = "pending"],
                           !.ready = @ \o [i \in DOMAIN Children |->
                                              Handle("step", Children[i])]]
      [] w.tasks[Debug].pc = "gather" ->
            IF w.outer.state = "failed"
            THEN Finish(w, Debug, "failed", w.outer.value)
            ELSE IF w.outer.state = "cancelled" \/ Cancelled(w, Debug)
            THEN Finish(w, Debug, "cancelled", None)
            ELSE Finish(PrintResults(w, TheValue(w.outer.value), 1),
                        Debug, "done", Some(None))

(***************************************************************************)
(* Scripts "calculator" (asyncio.run(waiting())) and "agents"              *)
(* (asyncio.run of debug_async_patterns).                                  *)
(***************************************************************************)
CalculatorTasks == {Waiting, Main, Divide, ReverseString}
AgentTasks == {Debug} \cup { <<"call", i>> : i \in 1..NumAgents }

InitLoop(all, root) ==
    /\ now = 0 /\ late = 0
    /\ ready = <<Handle("step", root)>>
    /\ ntodo = 0
    /\ timers = {}
    /\ phase = "running"
    /\ tasks = [t \in all |-> IF t = root THEN NewTask ELSE NoTask]
    /\ futs = [t \in all |-> NoFuture]
    /\ outer = NoGather
    /\ waiter = [state |-> "none", registered |-> FALSE]
    /\ snapshot = None
    /\ raisedErrors = {}

InitCalculator ==
    /\ prog = "calculator"
    /\ environ = <<>>
    /\ console = <<>>
    /\ uncaught = None
    /\ IdleConfig
    /\ IdleDynamic
    /\ InitLoop(CalculatorTasks, Waiting)
    /\ IdleGames

InitAgents ==
    /\ prog = "agents"
    /\ environ \in Environments
    /\ console = <<>>
    /\ uncaught = None
    /\ IdleConfig
    /\ IdleDynamic
    /\ InitLoop(AgentTasks, Debug)
    /\ IdleGames

InLoop == prog \in {"calculator", "agents"}
PendingTasks == {t \in DOMAIN tasks : tasks[t].status = "pending"}

\* the sequences that list the elements of S once each
Orderings(S) ==
    {s \in [1..Cardinality(S) -> S] : \A i, j \in DOMAIN s : s[i] = s[j] => i = j}

Min(S) == CHOOSE x \in S : \A y \in S : x <= y

\* the start of an iteration: the loop waits for the earliest timer unless
\* handles are ready, reads the clock, and appends the timers due to the
\* ready queue, earliest first
LoopSelect ==
    /\ InLoop
    /\ phase \in {"running", "shutdown"}
    /\ ntodo = 0
    /\ ready # <<>> \/ timers # {}
    /\ LET earliest == IF ready # <<>> \/ \E tm \in timers : tm.when <= now THEN now
                       ELSE Min({tm.when : tm \in timers})
       IN  \E t \in earliest..(earliest + (MaxLate - late)) :
             LET due == {tm \in timers : tm.when <= t} IN
             \E order \in Orderings(due) :
                /\ \A i, j \in DOMAIN order : i < j => order[i].when <= order[j].when
                /\ now' = t
                /\ late' = late + (t - earliest)
                /\ timers' = timers \ due
                /\ ready' = ready \o [i \in DOMAIN order |->
                                        Handle(order[i].h, order[i].task)]
                /\ ntodo' = Len(ready')
    /\ UNCHANGED <<gameVars, prog, environ, console, uncaught, cfgVars, dynVars, phase,
                   tasks, futs, outer, waiter, snapshot, raisedErrors>>

\* the handle the loop runs next, and the world with it taken off the queue
Running(kind) == InLoop /\ ntodo > 0 /\ Head(ready).h = kind
Popped == [World EXCEPT !.ready = Tail(ready)]
RunHandle(w) ==
    /\ Commit(w)
    /\ ntodo' = ntodo - 1
    /\ UNCHANGED <<gameVars, prog, environ, uncaught, cfgVars, dynVars, now, late, phase>>

StepWaitingTask ==
    /\ Running("step") /\ Head(ready).task = Waiting
    /\ RunHandle(StepWaiting(Popped))

StepMainTask ==
    /\ Running("step") /\ Head(ready).task = Main
    /\ RunHandle(StepMain(Popped))

StepCalculatorCallTask ==
    /\ Running("step") /\ prog = "calculator" /\ IsChild(Head(ready).task)
    /\ RunHandle(StepCalculatorCall(Popped, Head(ready).task))

StepDebugTask ==
    /\ Running("step") /\ Head(ready).task = Debug
    /\ RunHandle(StepDebug(Popped))

StepAgentCallTask ==
    /\ Running("step") /\ prog = "agents" /\ IsChild(Head(ready).task)
    /\ RunHandle(StepAgentCall(Popped, Head(ready).task))

\* the timer of asyncio.sleep: the sleeping task is woken unless it was cancelled
SleepFired ==
    /\ Running("sleep_fired")
    /\ LET t == Head(ready).task IN
        RunHandle(IF futs[t].state = "pending"
                  THEN Schedule([Popped EXCEPT !.futs[t].state = "done"],
                                Handle("step", t))
                  ELSE Popped)

\* the timer of asyncio.wait: _release_waiter
ReleaseWaiter ==
    /\ Running("release_waiter")
    /\ RunHandle(IF waiter.state = "pending"
                 THEN Schedule([Popped EXCEPT !.waiter.state = "done"],
                               Handle("step", Waiting))
                 ELSE Popped)

\* the done callback asyncio.wait put on the task: _on_completion
OnCompletion ==
    /\ Running("on_completion")
    /\ LET w == CancelTimer(Popped, Handle("release_waiter", Waiting)) IN
        RunHandle(IF waiter.state = "pending"
                  THEN Schedule([w EXCEPT !.waiter.state = "done"],
                                Handle("step", Waiting))
                  ELSE w)

GatherDoneCallback ==
    /\ Running("done_callback")
    /\ RunHandle(DoneCallback(Popped, Head(ready).task))

\* the answer or the failure of the remote service reaches a waiting Runner.run
RemoteCompletes ==
    /\ prog = "agents"
    /\ phase \in {"running", "shutdown"}
    /\ ntodo = 0
    /\ \E t \in DOMAIN futs :
        /\ futs[t].state = "pending"
        /\ \/ \E out \in AgentOutputs :
                futs' = [futs EXCEPT ![t] = [state |-> "done", value |-> Some(out)]]
           \/ futs' = [futs EXCEPT ![t] = [state |-> "failed",
                                           value |-> Some(RemoteError(t))]]
        /\ ready' = Append(ready, Handle("step", t))
    /\ UNCHANGED <<gameVars, prog, environ, console, uncaught, cfgVars, dynVars, now, late,
                   ntodo, timers, phase, tasks, outer, waiter, snapshot, raisedErrors>>

\* the done callback of the root task: loop.stop(), which ends the loop after
\* this iteration
Stop ==
    /\ Running("stop")
    /\ ready' = Tail(ready)
    /\ ntodo' = ntodo - 1
    /\ phase' = "stopping"
    /\ UNCHANGED <<gameVars, prog, environ, console, uncaught, cfgVars, dynVars, now, late,
                   timers, tasks, futs, outer, waiter, snapshot, raisedErrors>>

\* asyncio.run after the root task ended: every task still pending is
\* cancelled (in the order of a set) and the loop runs until they have ended
CancelAllTasks ==
    /\ InLoop
    /\ phase = "stopping" /\ ntodo = 0
    /\ \E order \in Orderings(PendingTasks) : Commit(CancelAll(World, order))
    /\ phase' = "shutdown"
    /\ UNCHANGED <<gameVars, prog, environ, uncaught, cfgVars, dynVars, now, late, ntodo>>

\* the loop is closed; the exception of the root task leaves asyncio.run
LoopCloses ==
    /\ InLoop
    /\ phase = "shutdown" /\ ntodo = 0 /\ ready = <<>> /\ PendingTasks = {}
    /\ phase' = "closed"
    /\ uncaught' = IF tasks[Root].status = "failed" THEN tasks[Root].result ELSE None
    /\ UNCHANGED <<gameVars, prog, environ, console, cfgVars, dynVars, now, late, ready, ntodo,
                   timers, tasks, futs, outer, waiter, snapshot, raisedErrors>>

NextLoop ==
    \/ LoopSelect
    \/ StepWaitingTask
    \/ StepMainTask
    \/ StepCalculatorCallTask
    \/ StepDebugTask
    \/ StepAgentCallTask
    \/ SleepFired
    \/ ReleaseWaiter
    \/ OnCompletion
    \/ GatherDoneCallback
    \/ RemoteCompletes
    \/ Stop
    \/ CancelAllTasks
    \/ LoopCloses

(***************************************************************************)
(* Numbers typed at input() and shown by print().                          *)
(***************************************************************************)
Digits == <<"0", "1", "2", "3", "4", "5", "6", "7", "8", "9">>
IsDigit(c) == IndexIn(Digits, c) > 0

\* str(n) for an integer n, character by character
RECURSIVE DecimalOfNat(_)
DecimalOfNat(n) ==
    IF n < 10 THEN <<Digits[n + 1]>>
    ELSE Append(DecimalOfNat(n \div 10), Digits[(n % 10) + 1])
DecimalOf(n) == IF n < 0 THEN <<"-">> \o DecimalOfNat(-n) ELSE DecimalOfNat(n)

\* the value of a string of digits
RECURSIVE ValueOfDigits(_)
ValueOfDigits(s) ==
    IF s = <<>> THEN 0
    ELSE 10 * ValueOfDigits(SubSeq(s, 1, Len(s) - 1)) + (IndexIn(Digits, s[Len(s)]) - 1)

\* int(s): the number, or the ValueError int() raises for text that is not
\* an optionally signed string of digits
IntOf(s) ==
    LET signed == s # <<>> /\ s[1] \in {"-", "+"}
        digits == IF signed THEN Tail(s) ELSE s
    IN  IF digits # <<>> /\ \A i \in DOMAIN digits : IsDigit(digits[i])
        THEN [raised |-> None,
              returned |-> Some(IF signed /\ s[1] = "-" THEN -ValueOfDigits(digits)
                                ELSE ValueOfDigits(digits))]
        ELSE [raised |-> Some(ValueError(<<"invalid literal for int() with base 10: ">>
                                          \o s)),
              returned |-> None]

\* s.lower()
Lower(s) == [i \in DOMAIN s |-> ToLower(s[i])]

\* random.randint(a, b): the values it can return; for an empty range it raises
RandInt(a, b) == a..b
EmptyRange == ValueError(<<"empty range for randrange()">>)

NotANumber == <<"a", "b", "c">>

(***************************************************************************)
(* python/projects/Number Guess Game/number_guess_computer.py              *)
(***************************************************************************)
LowStart == 1
HighStart == 100

\* what the user types at "Choose a number between 1 and 100"
SecretNumbers ==
    {n \in (LowStart - 1)..(HighStart + 1) :
        \/ n - LowStart < MaxEdge
        \/ HighStart - n < MaxEdge}
SecretInputs == {DecimalOf(n) : n \in SecretNumbers} \cup {NotANumber}

\* what the user types at "Is the number high or low?"
HighAnswer == <<"h", "i", "g", "h">>
LowAnswer == <<"l", "o", "w">>
Answers == {HighAnswer, <<"L", "O", "W">>, <<"n", "o">>}

\* input("Is the number high or low?").lower(): the values user can take
UserAnswers == {Lower(typed) : typed \in Answers}

\* the answer says "high" exactly when the guess is above the secret number
\* and "low" exactly when it is below
IsTruthful(user, g, secret) ==
    /\ user = HighAnswer <=> g > secret
    /\ user = LowAnswer <=> g < secret

\* the line that ends the game
GuessedLine(g, n) ==
    <<"Yay! I guessed it right: ">> \o DecimalOf(g) \o <<" in ">> \o DecimalOf(n)
        \o <<" attempts.">>

InitGuess ==
    /\ prog = "guess"
    /\ environ = <<>> /\ console = <<>> /\ uncaught = None
    /\ IdleConfig /\ IdleDynamic /\ IdleLoop
    /\ pc = "start"
    /\ IdleGuess /\ IdleRps /\ IdleRace

\* computer_guess up to its loop: low, high and attempts are set and the
\* secret number is read; text that is no number ends the script with int()'s
\* exception.  Of the lines the game prints only the last one is kept.
ReadSecretNumber ==
    /\ prog = "guess" /\ pc = "start"
    /\ \E typed \in SecretInputs :
        LET read == IntOf(typed) IN
        IF read.raised # None
        THEN /\ uncaught' = read.raised
             /\ pc' = "end"
             /\ UNCHANGED secret_number
        ELSE /\ secret_number' = read.returned
             /\ pc' = "loop"
             /\ UNCHANGED uncaught
    /\ low' = LowStart /\ high' = HighStart /\ attempts' = 0
    /\ UNCHANGED <<prog, environ, console, cfgVars, dynVars, loopVars, guess, truthful,
                   rpsVars, raceVars>>

\* runs in which the user was untruthful are followed for MaxUntruthful guesses
Followed == truthful \/ attempts < MaxUntruthful

\* one pass of the loop in which the guess is the secret number
GuessRight ==
    /\ prog = "guess" /\ pc = "loop" /\ Followed
    /\ \E secret \in secret_number, g \in RandInt(low, high) :
        /\ g = secret
        /\ guess' = Some(g)
        /\ attempts' = attempts + 1
        /\ console' = Append(console, GuessedLine(g, attempts'))
        /\ pc' = "end"
    /\ UNCHANGED <<prog, environ, uncaught, cfgVars, dynVars, loopVars, low, high,
                   secret_number, truthful, rpsVars, raceVars>>

\* the bounds after the user's answer to a wrong guess g
HighAfterOvershooting(user, g) == IF user = HighAnswer THEN g - 2 ELSE high
HighAfter(user, g) == IF user = HighAnswer THEN g - 1 ELSE high
LowAfter(user, g) == IF user # HighAnswer /\ user = LowAnswer THEN g + 1 ELSE low

\* one pass of the loop in which the guess is wrong: the user is asked and
\* the bound the answer names is moved
GuessWrong ==
    /\ prog = "guess" /\ pc = "loop" /\ Followed
    /\ \E secret \in secret_number, g \in RandInt(low, high), user \in UserAnswers :
        /\ g # secret
        /\ IsTruthful(user, g, secret) \/ attempts < MaxUntruthful
        /\ guess' = Some(g)
        /\ attempts' = attempts + 1
        /\ high' = HighAfter(user, g)
        /\ low' = LowAfter(user, g)
        /\ truthful' = (truthful /\ IsTruthful(user, g, secret))
    /\ UNCHANGED <<prog, environ, console, uncaught, cfgVars, dynVars, loopVars, pc,
                   secret_number, rpsVars, raceVars>>

\* random.randint(low, high) with low > high: its exception ends the script
GuessFails ==
    /\ prog = "guess" /\ pc = "loop" /\ Followed
    /\ RandInt(low, high) = {}
    /\ uncaught' = Some(EmptyRange)
    /\ pc' = "end"
    /\ UNCHANGED <<prog, environ, console, cfgVars, dynVars, loopVars, guessVars,
                   rpsVars, raceVars>>

NextGuess ==
    \/ ReadSecretNumber
    \/ GuessRight
    \/ GuessWrong
    \/ GuessFails

(***************************************************************************)
(* python/projects/rock_paper_scissor/main.py                              *)
(***************************************************************************)
rock == <<"\n    _______\n---'   ____)\n      (_____)\n      (_____)\n      (____)\n---.__(___)\n">>
paper == <<"\n    _______\n---'   ____)____\n          ______)\n          _______)\n         _______)\n---.__________)\n">>
scissors == <<"\n    _______\n---'   ____)____\n          ______)\n       __________)\n      (____)\n---.__(___)\n">>
game_list == <<rock, paper, scissors>>

IndexError == [type |-> "IndexError", msg |-> <<"list index out of range">>]

\* list[i] of Python: counted from 0, from the end for a negative i, and an
\* IndexError beyond either end
Subscript(list, i) ==
    IF 0 <= i /\ i < Len(list) THEN [raised |-> None, returned |-> Some(list[i + 1])]
    ELSE IF -Len(list) <= i /\ i < 0
    THEN [raised |-> None, returned |-> Some(list[Len(list) + i + 1])]
    ELSE [raised |-> Some(IndexError), returned |-> None]

\* what the player types at "What do you choose?"
ChoiceNumbers == (-MaxChoice)..(2 + MaxChoice)
ChoiceInputs == {DecimalOf(n) : n \in ChoiceNumbers} \cup {NotANumber}

ComputerChooseLine == <<"computer choose:">>
InvalidLine == <<"you typed an invalid number">>
DrawLine == <<"It's a draw!">>
WinLine == <<"You win">>
LoseLine == <<"You lose">>

InitRps ==
    /\ prog = "rps"
    /\ environ = <<>> /\ console = <<>> /\ uncaught = None
    /\ IdleConfig /\ IdleDynamic /\ IdleLoop
    /\ pc = "start"
    /\ IdleGuess /\ IdleRps /\ IdleRace

\* the number is read and, if it is one of 1, 2, 3, the picture at that index
\* is printed; int() may raise, and so may the indexing
PlayerChooses ==
    /\ prog = "rps" /\ pc = "start"
    /\ \E typed \in ChoiceInputs :
        LET read == IntOf(typed) IN
        IF read.raised # None
        THEN /\ uncaught' = read.raised
             /\ pc' = "end"
             /\ UNCHANGED <<your_choice, console>>
        ELSE LET n == TheValue(read.returned) IN
             /\ your_choice' = Some(n)
             /\ IF n <= 3 /\ n > 0
                THEN LET picture == Subscript(game_list, n) IN
                     IF picture.raised # None
                     THEN /\ uncaught' = picture.raised
                          /\ pc' = "end"
                          /\ UNCHANGED console
                     ELSE /\ console' = Append(console, TheValue(picture.returned))
                          /\ pc' = "chosen"
                          /\ UNCHANGED uncaught
                ELSE /\ pc' = "chosen"
                     /\ UNCHANGED <<console, uncaught>>
    /\ UNCHANGED <<prog, environ, cfgVars, dynVars, loopVars, guessVars, ai, raceVars>>

\* the computer's choice is drawn and shown
ComputerChooses ==
    /\ prog = "rps" /\ pc = "chosen"
    /\ \E n \in RandInt(0, 2) :
        /\ ai' = Some(n)
        /\ console' = console \o <<ComputerChooseLine,
                                   TheValue(Subscript(game_list, n).returned)>>
    /\ pc' = "shown"
    /\ UNCHANGED <<prog, environ, uncaught, cfgVars, dynVars, loopVars, guessVars,
                   your_choice, raceVars>>

\* the lines the if/elif chain prints for the two choices
Outcome(mine, its) ==
    IF mine >= 3 \/ mine < 0 THEN <<InvalidLine>>
    ELSE IF its = mine THEN <<DrawLine>>
    ELSE IF its > mine THEN <<WinLine>>
    ELSE IF its < mine THEN <<LoseLine>>
    ELSE IF its = 0 /\ mine = 2 THEN <<LoseLine>>
    ELSE IF its = 2 /\ mine = 0 THEN <<WinLine>>
    ELSE <<>>

\* the outcome is printed and the script ends
PrintOutcome ==
    /\ prog = "rps" /\ pc = "shown"
    /\ console' = console \o Outcome(TheValue(your_choice), TheValue(ai))
    /\ pc' = "end"
    /\ UNCHANGED <<prog, environ, uncaught, cfgVars, dynVars, loopVars, guessVars,
                   rpsVars, raceVars>>

NextRps ==
    \/ PlayerChooses
    \/ ComputerChooses
    \/ PrintOutcome

(***************************************************************************)
(* python/projects/turtle/main.py                                          *)
(***************************************************************************)
Red == <<"r", "e", "d">>
Orange == <<"o", "r", "a", "n", "g", "e">>
Yellow == <<"y", "e", "l", "l", "o", "w">>
Green == <<"g", "r", "e", "e", "n">>
Blue == <<"b", "l", "u", "e">>
Purple == <<"p", "u", "r", "p", "l", "e">>
colors == <<Red, Orange, Yellow, Green, Blue, Purple>>

StartX == -230
FinishX == 230
MaxDistance == 10

\* what the user types in the dialog; closing the dialog gives None
BetInputs == {<<"R", "e", "d">>, Purple, <<"p", "i", "n", "k">>}
AttributeError ==
    [type |-> "AttributeError",
     msg |-> <<"'NoneType' object has no attribute 'lower'">>]

\* the distances tried: the least and the greatest random.randint(0, 10) gives
Distances == {d \in RandInt(0, MaxDistance) : d \in {0, MaxDistance}}

\* where the turtles are when the race is taken up
PositionsTakenUp == {FinishX - MaxDistance * k : k \in 0..MaxBehind}

WonLine(winning_color) ==
    <<"You've won! The ">> \o winning_color \o <<" turtle is the winner!">>
LostLine(winning_color) ==
    <<"You've lost! The ">> \o winning_color \o <<" turtle is the winner!">>

InitRace ==
    /\ prog = "race"
    /\ environ = <<>> /\ console = <<>> /\ uncaught = None
    /\ IdleConfig /\ IdleDynamic /\ IdleLoop
    /\ pc = "bet"
    /\ IdleGuess /\ IdleRps /\ IdleRace

\* one pass of the loop that asks for the bet: the dialog is answered or
\* closed, and the loop is left when the answer, lowercased, is a colour
MakeBet ==
    /\ prog = "race" /\ pc = "bet"
    /\ \/ \E typed \in BetInputs :
            /\ user_bet' = Some(Lower(typed))
            /\ pc' = IF \E i \in DOMAIN colors : colors[i] = Lower(typed)
                     THEN "setup" ELSE "bet"
            /\ UNCHANGED uncaught
       \/ /\ uncaught' = Some(AttributeError)
          /\ pc' = "end"
          /\ UNCHANGED user_bet
    /\ UNCHANGED <<prog, environ, console, cfgVars, dynVars, loopVars, guessVars,
                   rpsVars, xcor, is_race_on, turtle>>

\* the six turtles are made and put on the starting line; the race is on
CreateTurtles ==
    /\ prog = "race" /\ pc = "setup"
    /\ xcor' = [i \in DOMAIN colors |-> StartX]
    /\ is_race_on' = (user_bet # None /\ TheValue(user_bet) # <<>>)
    /\ turtle' = 1
    /\ pc' = "early passes"
    /\ UNCHANGED <<prog, environ, console, uncaught, cfgVars, dynVars, loopVars,
                   guessVars, rpsVars, user_bet>>

\* the passes over the turtles in which none is found beyond the finish: each
\* turtle has moved by the sum of as many distances as there were passes, which
\* after 46 passes can be any position up to the finish; the race is taken up
\* at the start of a pass with every turtle at one of PositionsTakenUp
EarlyPasses ==
    /\ prog = "race" /\ pc = "early passes" /\ is_race_on
    /\ xcor' \in [DOMAIN colors -> PositionsTakenUp]
    /\ turtle' = 1
    /\ pc' = "race"
    /\ UNCHANGED <<prog, environ, console, uncaught, cfgVars, dynVars, loopVars,
                   guessVars, rpsVars, user_bet, is_race_on>>

\* the body of the for loop for one turtle: a turtle found beyond the finish
\* ends the race and is announced; then the turtle moves; after the last
\* turtle the while loop tests is_race_on
VisitTurtle ==
    /\ prog = "race" /\ pc = "race"
    /\ LET winning_color == colors[turtle]
           found == xcor[turtle] > FinishX
       IN  /\ is_race_on' = (is_race_on /\ ~found)
           /\ console' = IF ~found THEN console
                         ELSE IF Some(winning_color) = user_bet
                         THEN Append(console, WonLine(winning_color))
                         ELSE Append(console, LostLine(winning_color))
    /\ \E turtle_distance \in Distances :
        xcor' = [xcor EXCEPT ![turtle] = @ + turtle_distance]
    /\ IF turtle < Len(colors)
       THEN turtle' = turtle + 1 /\ UNCHANGED pc
       ELSE /\ turtle' = 1
            /\ pc' = IF is_race_on' THEN "race" ELSE "end"
    /\ UNCHANGED <<prog, environ, uncaught, cfgVars, dynVars, loopVars, guessVars,
                   rpsVars, user_bet>>

NextRace ==
    \/ MakeBet
    \/ CreateTurtles
    \/ EarlyPasses
    \/ VisitTurtle

Init ==
    InitConfig \/ InitDynamic \/ InitCalculator \/ InitAgents \/ InitGuess \/ InitRps
        \/ InitRace
Next == NextConfig \/ NextDynamic \/ NextLoop \/ NextGuess \/ NextRps \/ NextRace
Spec == Init /\ [][Next]_vars

\* the number guess game alone, with a user who answers every question and a
\* script that is not stopped from outside: a pass of the loop that can be
\* made is made
GuessSpec == InitGuess /\ [][NextGuess]_vars /\ WF_vars(NextGuess)

(***************************************************************************)
(* Claims about the configuration factories.                               *)
(***************************************************************************)
\* the precondition of the claims, read off the environment itself
CredentialPresent ==
    GEMINI_API_KEY \in DOMAIN environ /\ environ[GEMINI_API_KEY] # <<>>

IsDay2Call(c) == c.factory = "day-2/create_gemini_config"

\* the temperature and max_tokens a call runs with, the defaults 0.7 and 1000
\* standing in for an omitted argument
TemperatureOf(c) == IF c.temperature = <<>> THEN <<7, 10>> ELSE c.temperature[1]
MaxTokensOf(c) == IF c.max_tokens = <<>> THEN 1000 ELSE c.max_tokens[1]

IsMissingCredentialError(e) == e.type = "ValueError" /\ e.msg = MissingKeyMessage
IsInvalidParameterError(e) == e.type = "ValueError" /\ e.msg # MissingKeyMessage

FailsWithInvalidParameter(o) ==
    /\ o.returned = None
    /\ o.config = None
    /\ \E e \in o.raised : IsInvalidParameterError(e)

\* C1: with the credential present, create_gemini_config called with a
\* temperature outside [0,1] (any max_tokens) fails with an invalid-parameter
\* error and returns no configuration.
C1_TemperatureOutsideUnitIntervalFails ==
    \A c \in call, o \in outcome :
        (IsDay2Call(c) /\ CredentialPresent /\ ~InUnitInterval(TemperatureOf(c)))
            => FailsWithInvalidParameter(o)

\* C2: with the credential present, create_gemini_config called with
\* max_tokens <= 0 (any temperature) fails with an invalid-parameter error and
\* returns no configuration.
C2_NonPositiveMaxTokensFails ==
    \A c \in call, o \in outcome :
        (IsDay2Call(c) /\ CredentialPresent /\ MaxTokensOf(c) <= 0)
            => FailsWithInvalidParameter(o)

\* C3: when GEMINI_API_KEY is unset or empty, each of the three factories,
\* whatever temperature and max_tokens it is given, raises the
\* missing-credential error and has constructed no client, no model, no model
\* settings and no run configuration.
C3_MissingCredentialFailsFirst ==
    \A c \in call, o \in outcome :
        ~CredentialPresent =>
            /\ o.raised # None
            /\ \A e \in o.raised : IsMissingCredentialError(e)
            /\ o.returned = None
            /\ o.client = None /\ o.model = None
            /\ o.settings = None /\ o.config = None

\* C3's case: the credential is set to the empty string and the day-2 factory,
\* called with valid explicit arguments, has raised.
C3_Witness ==
    /\ GEMINI_API_KEY \in DOMAIN environ
    /\ environ[GEMINI_API_KEY] = <<>>
    /\ \E c \in call, o \in outcome :
        /\ IsDay2Call(c)
        /\ c.temperature = << <<1, 2>> >> /\ c.max_tokens = <<1>>
        /\ o.raised # None

RecognizedTaskTypes == {Email, Code, Creative, Tutor, Analyst}

IsPrefix(p, s) == Len(p) <= Len(s) /\ SubSeq(s, 1, Len(p)) = p
IsSuffix(p, s) == Len(p) <= Len(s) /\ SubSeq(s, Len(s) - Len(p) + 1, Len(s)) = p
Contains(s, sub) ==
    \E i \in 0..(Len(s) - Len(sub)) : SubSeq(s, i + 1, i + Len(sub)) = sub

IsUnknownTaskTypeError(e, task_type) ==
    e.type = "ValueError" /\ e.msg = <<"Unknown task type: ">> \o task_type

\* C4: create_agent_for_task called with a task_type that is not one of
\* email, code, creative, tutor, analyst raises the unknown-task-type error
\* and returns no agent.
C4_UnknownTaskTypeFails ==
    \A c \in created :
        c.task_type \notin RecognizedTaskTypes =>
            /\ c.result.returned = None
            /\ c.result.raised # None
            /\ \A e \in c.result.raised : IsUnknownTaskTypeError(e, c.task_type)

\* C4's case: create_agent_for_task("unknown_type") has raised.
C4_Witness ==
    \E c \in created : c.task_type = UnknownType /\ c.result.raised # None

\* C5: for a recognized task_type and any context, create_agent_for_task
\* returns an agent whose instructions are that type's preamble followed by the
\* context verbatim: they start with the preamble of the requested type and of
\* no other type, and they end with (so contain) the context.
C5_InstructionsArePreambleThenContext ==
    \A c \in created :
        c.task_type \in RecognizedTaskTypes =>
            /\ c.result.raised = None
            /\ \E a \in c.result.returned :
                /\ a.instructions = Preamble(c.task_type) \o c.context
                /\ IsPrefix(Preamble(c.task_type), a.instructions)
                /\ \A other \in RecognizedTaskTypes \ {c.task_type} :
                        ~IsPrefix(Preamble(other), a.instructions)
                /\ IsSuffix(c.context, a.instructions)
                /\ Contains(a.instructions, c.context)

\* C5's case: create_agent_for_task("creative", "focus on sustainability") has
\* returned an agent.
C5_Witness ==
    \E c \in created :
        /\ c.task_type = Creative
        /\ c.context = <<"focus on sustainability">>
        /\ \E a \in c.result.returned :
            Contains(a.instructions, <<"You are a creative writing assistant.">>)

\* C9: handle_request issues Runner.run at most once per request; once an
\* exception was raised in it (dispatch or remote call) the request is over,
\* with that one exception and no further run; a failed construction of the
\* DynamicAgent is not tried again; so no more runs are issued than requests
\* made.
C9_NoRetry ==
    /\ \A r \in req :
        /\ r.runs <= 1
        /\ Len(r.errors) <= 1
        /\ r.errors # <<>> => r.pc = "returned"
        /\ r.agent = None => r.runs = 0
    /\ runCalls <= handled
    /\ uncaught # None => (dyn = None /\ runCalls = 0)

\* C9's case: the remote call of the second request failed and the request
\* has returned.
C9_Witness ==
    /\ handled = 2 /\ runCalls = 2
    /\ \E r \in req :
        /\ r.runs = 1 /\ r.pc = "returned"
        /\ \E i \in DOMAIN r.errors : r.errors[i] \in RemoteErrors
(***************************************************************************)
(* Claims about the asyncio scripts.                                       *)
(***************************************************************************)
Range(f) == {f[i] : i \in DOMAIN f}

\* the calculator's wait has timed out: waiting() woke and found main() pending
TimedOut == prog = "calculator" /\ snapshot # None

\* the line print(divide_num, reverse) writes for the results of 25/6 and
\* "hello" reversed
ResultLine == << <<25, 6>>, <<"o", "l", "l", "e", "h">> >>

\* a printed line shows the result of call c
ShowsResultOf(line, c) ==
    /\ line # TimeoutLine
    /\ \/ c = Divide /\ \E i \in DOMAIN line : line[i] = <<25, 6>>
       \/ c = ReverseString /\ \E i \in DOMAIN line : line[i] = <<"o", "l", "l", "e", "h">>

\* C6 as stated: when the deadline passes before the slowest call has
\* finished, the batch ends with the results of the calls that had finished
\* before the deadline returned (here: printed, waiting() and main() returning
\* nothing else) and the other calls cancelled.
C6_DeadlineKeepsFinishedResults ==
    (TimedOut /\ phase = "closed") =>
        \A c \in {Divide, ReverseString} :
            IF c \in TheValue(snapshot)
            THEN \E line \in Range(console) : ShowsResultOf(line, c)
            ELSE tasks[c].status = "cancelled"

\* C6 as amended: when waiting() wakes at the deadline and main() is still
\* pending, the batch is given up as a whole.  "some task not complete in time"
\* is the one line ever printed, so no result is printed or returned, those of
\* finished calls included; waiting() returns None in that very step; main()
\* never completes and ends cancelled, as does every call that had not
\* finished, while a call that had finished stays finished.  And waiting() does
\* not wait for any call once the deadline's timer has run: its continuation
\* is then scheduled, or has run.
C6_DeadlineGivesUpWholeBatch ==
    /\ TimedOut =>
        /\ console = <<TimeoutLine>>
        /\ tasks[Waiting].status = "done" /\ tasks[Waiting].result = Some(None)
        /\ tasks[Main].status # "done"
        /\ phase = "closed" =>
            /\ tasks[Main].status = "cancelled"
            /\ \A c \in {Divide, ReverseString} :
                IF c \in TheValue(snapshot)
                THEN tasks[c].status = "done"
                ELSE tasks[c].status \in {"cancelled", "absent"}
    /\ (prog = "calculator" /\ waiter.state = "done") =>
        \/ tasks[Waiting].status = "done"
        \/ Handle("step", Waiting) \in Range(ready)

\* C6's case: the run is over, the deadline passed with divide finished and
\* reverse_string not, and only the time-out line was printed.
C6_Witness ==
    /\ TimedOut /\ phase = "closed"
    /\ snapshot = Some({Divide})
    /\ tasks[ReverseString].status = "cancelled"
    /\ console = <<TimeoutLine>>

\* the answer of the call made for gather's i-th argument
AnswerOf(i) ==
    IF prog = "calculator" THEN ResultLine[i] ELSE TheValue(futs[<<"call", i>>].value)

\* C7: when gather hands over its results, the i-th result is the result of
\* the i-th call, in whatever order the calls completed; and so the script
\* prints each result against the request it belongs to.
C7_GatherIsPositional ==
    /\ (InLoop /\ outer.state = "done") =>
        /\ Len(TheValue(outer.value)) = Len(Children)
        /\ \A i \in DOMAIN Children : TheValue(outer.value)[i] = AnswerOf(i)
    /\ prog = "calculator" =>
        \A k \in DOMAIN console :
            console[k] # TimeoutLine => console[k] = <<AnswerOf(1), AnswerOf(2)>>
    /\ prog = "agents" =>
        \A k \in DOMAIN console, i \in 1..NumAgents :
            (console[k][1] = "Agent " /\ console[k][2] = ToString(i - 1))
                => console[k][4] = AnswerOf(i)

\* C7's case: the three agents completed in the reverse of the order of the
\* arguments, the first and the last with different answers, and gather has
\* handed over its results.
C7_Witness ==
    /\ prog = "agents" /\ outer.state = "done"
    /\ outer.finished = << <<"call", 3>>, <<"call", 2>>, <<"call", 1>> >>
    /\ futs[<<"call", 1>>].value # futs[<<"call", 3>>].value

\* an error has been reported on the console or has reached the caller
OnConsole(e) == \E line \in Range(console) : Contains(line, Str(e))

\* C8: every error raised is propagated to the caller or reported on the
\* console: an exception caught by handle_request has its line printed by the
\* time the call returns, and once an asyncio script is over every exception
\* its coroutines raised has left asyncio.run or is on the console.
C8_EveryErrorSurfaces ==
    /\ \A r \in req :
        r.pc = "returned" => \A i \in DOMAIN r.errors : OnConsole(r.errors[i])
    /\ (InLoop /\ phase = "closed") =>
        \A e \in raisedErrors : uncaught = Some(e) \/ OnConsole(e)

\* how many times the time-out line was printed
TimeoutReports == Cardinality({k \in DOMAIN console : console[k] = TimeoutLine})

\* the tasks of the calculator that were cancelled
CancelledTasks == {t \in DOMAIN tasks : tasks[t].status = "cancelled"}

\* C11: a call still outstanding when the deadline of waiting() elapses is
\* cancelled and abandoned.  "some task not complete in time" is printed once
\* for the pending task that asyncio.wait hands back (main(), the only task
\* waited for) and never otherwise; a cancelled task has no result, and no
\* printed line shows a result once a task was cancelled: the results main()
\* gathers are never printed after the time-out, also when both calls had
\* finished and main() was about to resume.  When the run is over, main() and
\* every call that had not finished at the deadline are cancelled.
C11_OutstandingCallsAreAbandoned ==
    prog = "calculator" =>
        /\ TimeoutReports = (IF TimedOut THEN 1 ELSE 0)
        /\ \A t \in CancelledTasks :
            /\ tasks[t].result = None
            /\ \A line \in Range(console), c \in {Divide, ReverseString} :
                ~ShowsResultOf(line, c)
        /\ (TimedOut /\ phase = "closed") =>
            /\ Main \in CancelledTasks
            /\ \A c \in {Divide, ReverseString} :
                c \notin TheValue(snapshot) => c \in CancelledTasks

\* C11's case: the deadline passed when both calls had finished but main() had
\* not yet resumed; main() was cancelled and the run ended with the time-out
\* line alone.
C11_Witness ==
    /\ TimedOut /\ phase = "closed"
    /\ snapshot = Some({Divide, ReverseString})
    /\ outer.state = "done"
    /\ tasks[Main].status = "cancelled"
    /\ console = <<TimeoutLine>>

(***************************************************************************)
(* Further claims about DynamicAgent.                                      *)
(***************************************************************************)
\* a step of the script "resolve" in which create_agent_for_task was called
ResolveStep == prog = "resolve" /\ created' # None /\ dyn # None

\* the arguments of the direct call recorded in c
ArgumentsOf(c) == <<c.task_type, c.context>>

\* C12: create_agent_for_task is a pure function.  A call of it, whatever the
\* task type and the context and whether it returns or raises, leaves the
\* DynamicAgent's base_name and config as they were, issues no Runner.run,
\* prints nothing and lets no exception escape other than the one it hands to
\* its caller; and a call with the arguments of the call before it, on the same
\* object, gives the same outcome: the same name and the same instructions.
C12_CreateAgentForTaskIsPure ==
    [][ResolveStep =>
          /\ dyn' = dyn
          /\ runCalls' = runCalls /\ req' = req /\ handled' = handled
          /\ console' = console /\ uncaught' = uncaught /\ environ' = environ
          /\ \A before \in created, after \in created' :
                ArgumentsOf(before) = ArgumentsOf(after)
                    => after.result = before.result]_vars

\* C12's case: create_agent_for_task has returned an agent for a context that
\* is not empty, on an object named other than by default, and no run was
\* issued.
C12_Witness ==
    /\ prog = "resolve" /\ runCalls = 0 /\ console = <<>>
    /\ \E self \in dyn, c \in created :
        /\ self.base_name = <<"Versatile Assistant">>
        /\ c.task_type = Analyst /\ Len(c.context) = MaxContextLen
        /\ c.result.returned # None
        /\ TheValue(c.result.returned).name
              = <<"Versatile Assistant", " - ", "A", "n", "a", "l", "y", "s", "t">>

\* the last line on the console
LastLine == console[Len(console)]

\* C13: handle_request never raises to its caller.  A call of it is awaiting
\* its one Runner.run or has returned, and no exception has left the script
\* once requests are made.  Returned for a task type that is not recognized:
\* no Runner.run was issued, the caught unknown-task-type error was printed and
\* None returned.  Returned for a recognized task type: one run was issued; if
\* it succeeded its final output is returned and nothing was printed; if it
\* failed the error was printed and None returned.
C13_HandleRequestNeverRaises ==
    /\ handled > 0 => uncaught = None
    /\ \A r \in req :
        /\ r.pc \in {"awaiting Runner.run", "returned"}
        /\ r.pc = "awaiting Runner.run" => r.task_type \in RecognizedTaskTypes
        /\ r.pc = "returned" =>
            IF r.task_type \notin RecognizedTaskTypes
            THEN /\ r.runs = 0 /\ r.agent = None
                 /\ r.result = None
                 /\ Len(r.errors) = 1
                 /\ IsUnknownTaskTypeError(r.errors[1], r.task_type)
                 /\ console # <<>> /\ LastLine = CaughtLine(r.errors[1])
            ELSE /\ r.runs = 1
                 /\ IF r.errors = <<>>
                    THEN /\ r.result # None /\ TheValue(r.result) \in FinalOutputs
                         /\ r.printed = <<>>
                    ELSE /\ r.result = None
                         /\ Len(r.errors) = 1 /\ r.errors[1] \in RemoteErrors
                         /\ console # <<>> /\ LastLine = CaughtLine(r.errors[1])

\* C13's case: three requests were made; one was for an unrecognized task
\* type and one had its run fail, each leaving its line on the console, and
\* the last one has returned the final output of its run.
C13_Witness ==
    /\ handled = 3 /\ runCalls = 2 /\ Len(console) = 2
    /\ \E k \in DOMAIN console :
          Contains(console[k], <<"Unknown task type: ">> \o UnknownType)
    /\ \E k \in DOMAIN console, e \in RemoteErrors : console[k] = CaughtLine(e)
    /\ \E r \in req : r.pc = "returned" /\ r.result # None

(***************************************************************************)
(* Claims about the number guess game.                                     *)
(***************************************************************************)
\* the secret number is in 1..100 and every answer so far was truthful
TruthfulGame(secret) == prog = "guess" /\ truthful /\ secret \in 1..100

\* a pass of the loop with a wrong guess
WrongGuessStep == prog = "guess" /\ pc = "loop" /\ pc' = "loop" /\ attempts' = attempts + 1

\* C14: in computer_guess, with a secret number in 1..100 and a user who has
\* always answered truthfully: before every guess low <= secret <= high, so
\* the guess never fails for an empty range; the guesses made and the numbers
\* still in [low, high] are at most 100 together, so at most 100 guesses are
\* made whatever the random choices; the game ends only with guess = secret,
\* its last line naming the secret number and the number of attempts; and
\* every wrong guess leaves an interval inside the old one and strictly
\* shorter.  And the loop terminates: a game in its loop ends, or the user
\* stops being truthful.
C14_TruthfulGuessingTerminates ==
    /\ [](\A secret \in secret_number :
            TruthfulGame(secret) =>
                /\ uncaught = None
                /\ attempts <= 100
                /\ pc = "loop" =>
                    /\ low <= secret /\ secret <= high
                    /\ attempts + (high - low + 1) <= 100
                /\ pc = "end" =>
                    /\ guess = Some(secret)
                    /\ console = <<GuessedLine(secret, attempts)>>)
    /\ [][\A secret \in secret_number :
            (WrongGuessStep /\ TruthfulGame(secret) /\ truthful') =>
                /\ low <= low' /\ high' <= high
                /\ high' - low' < high - low]_vars
    /\ (prog = "guess" /\ pc = "loop" /\ secret_number \subseteq 1..100)
            ~> (pc = "end" \/ ~truthful)

\* C14's case: the secret number was 100 and the computer needed all of its
\* 100 guesses, each answered truthfully.
C14_Witness ==
    /\ prog = "guess" /\ pc = "end" /\ truthful
    /\ secret_number = Some(100) /\ guess = Some(100)
    /\ attempts = 100

(***************************************************************************)
(* Claims about rock-paper-scissors.                                       *)
(***************************************************************************)
RpsOver == prog = "rps" /\ pc = "end"

\* the outcome messages on the console, in the order printed
OutcomeMessages ==
    SelectSeq(console, LAMBDA line : line \in {DrawLine, WinLine, LoseLine})

\* choice a beats choice b: rock (0) beats scissors (2), scissors beats paper
\* (1), paper beats rock
Beats(a, b) == <<a, b>> \in {<<0, 2>>, <<2, 1>>, <<1, 0>>}

\* C15: for every player choice in {0,1,2} and every computer choice, exactly
\* one outcome message is printed and it is the one of the standard rules:
\* a draw for equal choices, "You win" when the player's choice beats the
\* computer's, "You lose" when the computer's beats the player's.
C15_OutcomeFollowsTheRules ==
    RpsOver =>
        \A mine \in your_choice, its \in ai :
            mine \in 0..2 =>
                /\ Len(OutcomeMessages) = 1
                /\ OutcomeMessages[1] = (IF mine = its THEN DrawLine
                                         ELSE IF Beats(mine, its) THEN WinLine
                                         ELSE LoseLine)

\* C16: a number outside {0,1,2} lets the script run to its end, where "you
\* typed an invalid number" and no outcome message is on the console; for a
\* number in {0,1,2} the player's picture is printed before "computer choose:".
C16_InvalidNumbersAreReported ==
    RpsOver =>
        \A mine \in your_choice :
            IF mine \notin 0..2
            THEN /\ uncaught = None
                 /\ \E k \in DOMAIN console : console[k] = InvalidLine
                 /\ OutcomeMessages = <<>>
            ELSE \E j \in DOMAIN console, k \in DOMAIN console :
                    /\ j < k
                    /\ console[j] = game_list[mine + 1]
                    /\ console[k] = ComputerChooseLine

(***************************************************************************)
(* Claims about the turtle race.                                           *)
(***************************************************************************)
\* the announcements of a winner on the console
Announcements ==
    SelectSeq(console, LAMBDA line : \E i \in DOMAIN colors :
                                        line \in {WonLine(colors[i]), LostLine(colors[i])})

\* C17: exactly one winner is announced per race.  At most one win/lose
\* message is ever printed; once one is printed the race is off; and when the
\* race loop has stopped there is exactly one announcement.
C17_ExactlyOneWinnerAnnounced ==
    prog = "race" =>
        /\ Len(Announcements) <= 1
        /\ Len(Announcements) = 1 => ~is_race_on
        /\ pc = "end" /\ uncaught = None => Len(Announcements) = 1
=============================================================================
